---- MODULE Spec2Model ----
(***************************************************************************)
(* The WhatsApp session lifecycle of the server (startClient, the handlers *)
(* of the connection's events, the initialization watchdog, the QR expiry  *)
(* interval, GET and POST /api/whatsapp/qr), the bulk senders (POST        *)
(* /api/send-emails, POST /api/whatsapp/send) and the payment requests     *)
(* (POST /api/create-order, POST /api/verify-payment).                     *)
(*                                                                         *)
(* Time is counted in ticks of 10 s: 60000 ms = 6, 30000 ms = 3,           *)
(* 10000 ms = 1.  A timer holds the ticks left until it is due; time does  *)
(* not advance past a due timer.  The 5000 ms restart timeout is shorter   *)
(* than a tick: it falls due in the tick it was set in or in the next one, *)
(* so it may fire before the next tick and must fire before the second.    *)
(* Date.now() is kept relative: qrAge is Date.now() - qrGeneratedTime,     *)
(* saturated one tick past QR_TIMEOUT.                                     *)
(***************************************************************************)
EXTENDS Integers, FiniteSets, Sequences, TLC

\* ------------------------------------------------------------- bounds
MaxStale    == 1    \* superseded live connections whose events are followed
MaxRestarts == 1    \* delayed startClient() calls a disconnect may leave pending
MaxResets   == 2    \* POST /api/whatsapp/qr requests in flight together
MaxPayload  == 1    \* distinct QR payloads
MaxRun      == 7    \* cap of the disconnect counters of the history
MaxEmails   == 5    \* recipients of one POST /api/send-emails
MaxBatch    == 3    \* batchSize of sendEmailsInBatches
MaxContacts == 2    \* contacts of one POST /api/whatsapp/send
MaxCalls    == 2    \* POST /api/whatsapp/send requests in flight together
MaxUsers    == 2    \* users with an order each
MaxAmount   == 3    \* the largest order amount, in hundreds of paise

\* ------------------------------------------------- program constants
MAX_RECONNECT_ATTEMPTS == 5
QR_TIMEOUT             == 6
INITIALIZATION_TIMEOUT == 3
RESTART_DELAY          == 1
SWEEP_INTERVAL         == 1
maxAttempts            == 15   \* const maxAttempts = 15 of checkQR
SEND_DELAY             == 1    \* await delay(10000)
PAISE                  == 100  \* currentAmount = amount/100

NULL       == "null"
NoQr       == 0            \* qrCodeData null
INFO       == "info"       \* the value of client.info of a ready connection
HANDLE     == "handle"     \* a handle setTimeout returned
Payloads   == 1..MaxPayload
NotPending == 0 - 1
NoAge      == 0 - 1

ClientStates ==
  {"initializing", "qr", "authenticated", "ready", "disconnected",
   "auth_failure", "error"}

\* The stages of a live connection object: initialize() called and nothing
\* emitted yet, QR emitted, authenticated, ready.
LiveStages == {"init", "qr", "auth", "ready"}

\* What the global `client` refers to: nothing, a live connection by its
\* stage, or a connection that has ended (destroyed, or a terminal event).
ClientRefs == {"undefined", "ended"} \cup LiveStages

\* The recipients' addresses, and req.body.emails: arrays of { email }.
Addresses == {"a", "b"}
EmailLists ==
  UNION {[1..n -> [email : Addresses]] : n \in 0..MaxEmails}

\* No sendEmailsInBatches call.
NoJob ==
  [emails |-> <<>>, batchSize |-> 1, i |-> 0, at |-> "returned",
   batch |-> <<>>, results |-> <<>>, allResults |-> <<>>,
   pending |-> 0, sent |-> <<>>, raised |-> <<>>, batches |-> <<>>, delays |-> 0]

\* req.body.contacts of POST /api/whatsapp/send, by whether contact.phone
\* passes /^\d{10,15}$/.
ContactLists ==
  UNION {[1..n -> BOOLEAN] : n \in 0..MaxContacts}

Requests == 1..MaxCalls

\* No request: the handler is not running.
NoCall == [contacts |-> <<>>, at |-> "none", wait |-> NotPending]

\* The users of the payment requests, the amounts of their orders (req.body.amount,
\* whole rupees in paise), and no amount.
Users    == 1..MaxUsers
Amounts  == {PAISE * k : k \in 1..MaxAmount}
NoAmount == 0 - 1

VARIABLES
  client,                 \* what the global refers to, in ClientRefs
  qrCodeData,
  qrAge,                  \* Date.now() - qrGeneratedTime; NoAge: qrGeneratedTime is null
  sessionPhone,
  sessionInfo,
  isInitializing,
  reconnectAttempts,
  clientState,
  initializationTimeout,  \* the stored handle, or NULL
  watchdog,               \* ticks left of the timeout the handle names; NotPending
                          \* when it has fired, was cleared, or there is none
  orphans,                \* ticks left -> pending timeouts no handle names any more
  stale,                  \* stage -> live connections the global no longer refers to
  restarts,               \* ticks left -> pending setTimeout(startClient, 5000)
  sweep,                  \* ticks until the QR expiry interval fires
  awaitLogout,            \* POST requests suspended in await client.logout()
  awaitDestroy,           \* POST requests suspended in await client.destroy()
  lastOp,                 \* history: the operation that ran last, with its outcome
  track,                  \* history: whether the disconnect runs are counted
  discRun,                \* history: non-manual disconnects since the last Ready
  discRunQ,               \* history: non-manual disconnects since the last Ready or QR
  followed,               \* scenario: whether the checkQR timers of a POST are followed
  attempts,               \* `attempts` of the followed POST request
  res,                    \* its response: "none", "pending", "success", "failure"
  checks,                 \* the times its checkQR has run, until it responds
  job,                    \* the sendEmailsInBatches call followed, with its history
  calls,                  \* request -> the POST /api/whatsapp/send it is serving
  sinceSend,              \* ticks since client.sendMessage was last called; NoAge: never
  currentAmount,          \* var currentAmount
  totalAmount,            \* totalAmount of the PaymentTotal document
  orderOf,                \* user -> the amount of the order they created; NoAmount
  payAt,                  \* user -> where their create-order or verify-payment is
  added                   \* history: user -> what their verification added; NoAmount

session ==
  <<client, qrCodeData, qrAge, sessionPhone, sessionInfo, isInitializing,
    reconnectAttempts, clientState, initializationTimeout>>
env  == <<watchdog, orphans, stale, restarts>>
hist == <<lastOp, track, discRun, discRunQ>>
poll == <<followed, attempts, res, checks>>
bulk == <<job, calls, sinceSend>>
pay  == <<currentAmount, totalAmount, orderOf, payAt, added>>
vars == <<session, env, sweep, awaitLogout, awaitDestroy, hist, poll, bulk, pay>>

\* The session globals and what startClient and the handlers act on, as one value.
Cur ==
  [client |-> client, qrCodeData |-> qrCodeData, qrAge |-> qrAge,
   sessionPhone |-> sessionPhone, sessionInfo |-> sessionInfo,
   isInitializing |-> isInitializing, reconnectAttempts |-> reconnectAttempts,
   clientState |-> clientState, initializationTimeout |-> initializationTimeout,
   watchdog |-> watchdog, orphans |-> orphans, stale |-> stale,
   restarts |-> restarts]

Commit(s) ==
  /\ client' = s.client
  /\ qrCodeData' = s.qrCodeData
  /\ qrAge' = s.qrAge
  /\ sessionPhone' = s.sessionPhone
  /\ sessionInfo' = s.sessionInfo
  /\ isInitializing' = s.isInitializing
  /\ reconnectAttempts' = s.reconnectAttempts
  /\ clientState' = s.clientState
  /\ initializationTimeout' = s.initializationTimeout
  /\ watchdog' = s.watchdog
  /\ orphans' = s.orphans
  /\ stale' = s.stale
  /\ restarts' = s.restarts

Holds(s) ==
  /\ client = s.client
  /\ qrCodeData = s.qrCodeData
  /\ qrAge = s.qrAge
  /\ sessionPhone = s.sessionPhone
  /\ sessionInfo = s.sessionInfo
  /\ isInitializing = s.isInitializing
  /\ reconnectAttempts = s.reconnectAttempts
  /\ clientState = s.clientState
  /\ initializationTimeout = s.initializationTimeout
  /\ watchdog = s.watchdog
  /\ orphans = s.orphans
  /\ stale = s.stale
  /\ restarts = s.restarts

Min(a, b) == IF a < b THEN a ELSE b

\* The module-level declarations, before startClient() has run.
Declared ==
  [client |-> "undefined", qrCodeData |-> NoQr, qrAge |-> NoAge,
   sessionPhone |-> NULL, sessionInfo |-> NULL,
   isInitializing |-> FALSE, reconnectAttempts |-> 0,
   clientState |-> "initializing", initializationTimeout |-> NULL,
   watchdog |-> NotPending,
   orphans |-> [d \in 0..INITIALIZATION_TIMEOUT |-> 0],
   stale |-> [st \in LiveStages |-> 0],
   restarts |-> [d \in 0..RESTART_DELAY |-> 0]]

\* ---------------------------------------------------------- helpers

\* if (initializationTimeout) { clearTimeout(...); initializationTimeout = null; }
ClearInitializationTimeout(s) ==
  IF s.initializationTimeout # NULL
  THEN [s EXCEPT !.watchdog = NotPending, !.initializationTimeout = NULL]
  ELSE s

\* initializationTimeout = setTimeout(..., INITIALIZATION_TIMEOUT): a timeout
\* still pending under the overwritten handle stays pending.
SetInitializationTimeout(s) ==
  LET o == IF s.watchdog = NotPending
           THEN s.orphans
           ELSE [s.orphans EXCEPT ![s.watchdog] = @ + 1]
  IN [s EXCEPT !.orphans = o,
               !.initializationTimeout = HANDLE,
               !.watchdog = INITIALIZATION_TIMEOUT]

\* setTimeout(() => startClient(), 5000)
ScheduleRestart(s) ==
  [s EXCEPT !.restarts[RESTART_DELAY] = @ + 1]

PendingRestarts(s) ==
  LET RECURSIVE Sum(_)
      Sum(d) == IF d < 0 THEN 0 ELSE s.restarts[d] + Sum(d - 1)
  IN Sum(RESTART_DELAY)

Followed(s) ==
  s.stale["init"] + s.stale["qr"] + s.stale["auth"] + s.stale["ready"]

\* client = new Client(...): the global refers to the new connection; the one
\* it referred to, if live, lives on (followed while the bound allows).
NewClient(s) ==
  LET old == s.client
      st  == IF old \in LiveStages /\ Followed(s) < MaxStale
             THEN [s.stale EXCEPT ![old] = @ + 1]
             ELSE s.stale
  IN [s EXCEPT !.stale = st, !.client = "init"]

\* client.destroy(): best effort, the connection ends unless the call fails.
Destroy(s, ok) ==
  IF s.client \in LiveStages /\ ok
  THEN [s EXCEPT !.client = "ended"]
  ELSE s

\* The stage of the connection `who` names: "client" is the one the global
\* refers to, a stage names a superseded connection at that stage.
StageOf(s, who) ==
  IF who = "client" THEN s.client
  ELSE IF s.stale[who] > 0 THEN who ELSE "ended"

\* The connection `who` names moves to stage `to`.
Move(s, who, to) ==
  IF who = "client" THEN [s EXCEPT !.client = to]
  ELSE LET s1 == [s EXCEPT !.stale[who] = @ - 1]
       IN IF to \in LiveStages THEN [s1 EXCEPT !.stale[to] = @ + 1] ELSE s1

\* ------------------------------------------------------ startClient

\* The body of startClient() once the isInitializing guard has let it pass.
\* ctorOk: whether new Client(...) and the registrations complete; otherwise
\* the catch block runs.
StartBody(s, ctorOk) ==
  LET s0 == IF s.clientState = "initializing" /\ ~s.isInitializing
            THEN [s EXCEPT !.clientState = "disconnected"]
            ELSE s
      s1 == SetInitializationTimeout(
              [s0 EXCEPT !.isInitializing = TRUE, !.clientState = "initializing"])
  IN IF ctorOk
     THEN NewClient(s1)
     ELSE [ClearInitializationTimeout(s1) EXCEPT !.isInitializing = FALSE,
                                                 !.clientState = "error"]

\* startClient() without its re-entrancy guard.
StartClientUnguarded(s, ctorOk) == StartBody(s, ctorOk)

StartClient(s, ctorOk) ==
  IF s.isInitializing THEN s ELSE StartBody(s, ctorOk)

\* --------------------------------------------------- event handlers

\* The qr handler without its reset of reconnectAttempts.
OnQrKeepsAttempts(s, qr) ==
  [ClearInitializationTimeout(s) EXCEPT
     !.qrCodeData = qr, !.qrAge = 0,
     !.sessionPhone = NULL, !.sessionInfo = NULL,
     !.clientState = "qr", !.isInitializing = FALSE]

\* client.on('qr', qr => ...)
OnQr(s, qr) ==
  [ClearInitializationTimeout(s) EXCEPT
     !.qrCodeData = qr, !.qrAge = 0,
     !.sessionPhone = NULL, !.sessionInfo = NULL,
     !.reconnectAttempts = 0,
     !.clientState = "qr", !.isInitializing = FALSE]

\* The authenticated handler clearing the QR code at once.
OnAuthenticatedClearsQr(s) ==
  [ClearInitializationTimeout(s) EXCEPT
     !.clientState = "authenticated", !.qrCodeData = NoQr, !.qrAge = NoAge]

\* The authenticated handler without its clearTimeout.
OnAuthenticatedKeepsTimeout(s) == [s EXCEPT !.clientState = "authenticated"]

\* client.on('authenticated', ...)
OnAuthenticated(s) ==
  [ClearInitializationTimeout(s) EXCEPT !.clientState = "authenticated"]

\* `await client.info` of the connection the global refers to: it is there
\* once that connection is ready; info.wid.user throws otherwise.
ClientInfo(s) ==
  IF s.client = "ready" THEN INFO ELSE NULL

\* The ready handler entering 'ready' whether or not client.info is there.
OnReadyUnchecked(s) ==
  [ClearInitializationTimeout(s) EXCEPT
     !.sessionPhone = ClientInfo(s), !.sessionInfo = ClientInfo(s),
     !.reconnectAttempts = 0, !.isInitializing = FALSE,
     !.clientState = "ready", !.qrCodeData = NoQr, !.qrAge = NoAge]

\* The ready handler without its clearing of the QR code.
OnReadyKeepsQr(s) ==
  LET s1   == ClearInitializationTimeout(s)
      info == ClientInfo(s1)
  IN IF info # NULL
     THEN [s1 EXCEPT !.sessionPhone = info, !.sessionInfo = info,
                     !.reconnectAttempts = 0, !.isInitializing = FALSE,
                     !.clientState = "ready"]
     ELSE [s1 EXCEPT !.isInitializing = FALSE, !.clientState = "error"]

\* client.on('ready', async () => ...)
OnReady(s) ==
  LET s1   == ClearInitializationTimeout(s)
      info == ClientInfo(s1)
  IN IF info # NULL
     THEN [s1 EXCEPT !.sessionPhone = info, !.sessionInfo = info,
                     !.reconnectAttempts = 0, !.isInitializing = FALSE,
                     !.clientState = "ready",
                     !.qrCodeData = NoQr, !.qrAge = NoAge]
     ELSE [s1 EXCEPT !.isInitializing = FALSE, !.clientState = "error"]

\* The reconnection test without the test of the reason.
ReconnectsAnyReason(s, reason) ==
  s.reconnectAttempts < MAX_RECONNECT_ATTEMPTS

\* The reconnection test with <= for <.
ReconnectsOffByOne(s, reason) ==
  reason # "NAVIGATION" /\ s.reconnectAttempts <= MAX_RECONNECT_ATTEMPTS

\* if (reason !== 'NAVIGATION' && reconnectAttempts < MAX_RECONNECT_ATTEMPTS)
Reconnects(s, reason) ==
  reason # "NAVIGATION" /\ s.reconnectAttempts < MAX_RECONNECT_ATTEMPTS

\* client.on('disconnected', async reason => ...)
OnDisconnected(s, reason) ==
  LET s1 == [ClearInitializationTimeout(s) EXCEPT
               !.qrCodeData = NoQr, !.qrAge = NoAge,
               !.sessionPhone = NULL, !.sessionInfo = NULL,
               !.isInitializing = FALSE, !.clientState = "disconnected"]
  IN IF Reconnects(s1, reason)
     THEN ScheduleRestart([s1 EXCEPT !.reconnectAttempts = @ + 1])
     ELSE s1

\* client.on('auth_failure', msg => ...)
OnAuthFailure(s) ==
  [ClearInitializationTimeout(s) EXCEPT
     !.isInitializing = FALSE, !.clientState = "auth_failure",
     !.qrCodeData = NoQr, !.qrAge = NoAge,
     !.sessionPhone = NULL, !.sessionInfo = NULL]

\* client.on('error', err => ...)
OnError(s) ==
  [ClearInitializationTimeout(s) EXCEPT
     !.isInitializing = FALSE, !.clientState = "error"]

\* client.initialize().catch(error => ...)
OnInitializeRejected(s) ==
  [ClearInitializationTimeout(s) EXCEPT
     !.isInitializing = FALSE, !.clientState = "error"]

\* The timeout callback doing nothing.
OnInitializationTimeoutIdle(s, destroyOk) == s

\* The timeout callback restarting only below the reconnection cap.
OnInitializationTimeoutCapped(s, destroyOk) ==
  IF s.clientState = "initializing"
  THEN LET s1 == Destroy([s EXCEPT !.isInitializing = FALSE, !.clientState = "error"],
                         destroyOk)
       IN IF s1.reconnectAttempts < MAX_RECONNECT_ATTEMPTS
          THEN ScheduleRestart(s1) ELSE s1
  ELSE s

\* The callback of an initialization timeout.
OnInitializationTimeout(s, destroyOk) ==
  IF s.clientState = "initializing"
  THEN ScheduleRestart(
         Destroy([s EXCEPT !.isInitializing = FALSE, !.clientState = "error"],
                 destroyOk))
  ELSE s

\* The callback of setInterval(..., 10000).
QrExpired(s) ==
  s.qrCodeData # NoQr /\ s.qrAge # NoAge /\ s.qrAge > QR_TIMEOUT

\* The interval clearing an expired QR only in state 'qr'.
OnSweepInQrOnly(s) ==
  IF QrExpired(s) /\ s.clientState = "qr"
  THEN [s EXCEPT !.qrCodeData = NoQr, !.qrAge = NoAge] ELSE s

OnSweep(s) ==
  IF QrExpired(s) THEN [s EXCEPT !.qrCodeData = NoQr, !.qrAge = NoAge] ELSE s

\* ------------------------------------------------------------ state

TypeOK ==
  /\ client \in ClientRefs
  /\ qrCodeData \in {NoQr} \cup Payloads
  /\ qrAge \in {NoAge} \cup 0..(QR_TIMEOUT + 1)
  /\ sessionPhone \in {NULL, INFO}
  /\ sessionInfo \in {NULL, INFO}
  /\ isInitializing \in BOOLEAN
  /\ reconnectAttempts \in Nat
  /\ clientState \in ClientStates
  /\ initializationTimeout \in {NULL, HANDLE}
  /\ watchdog \in {NotPending} \cup 0..INITIALIZATION_TIMEOUT
  /\ orphans \in [0..INITIALIZATION_TIMEOUT -> Nat]
  /\ stale \in [LiveStages -> 0..MaxStale]
  /\ restarts \in [0..RESTART_DELAY -> Nat]
  /\ sweep \in 0..SWEEP_INTERVAL
  /\ awaitLogout \in 0..MaxResets
  /\ awaitDestroy \in 0..MaxResets
  /\ track \in BOOLEAN
  /\ discRun \in 0..MaxRun
  /\ discRunQ \in 0..MaxRun
  /\ followed \in BOOLEAN
  /\ attempts \in 0..maxAttempts
  /\ res \in {"none", "pending", "success", "failure"}
  /\ checks \in 0..maxAttempts
  /\ job.emails \in EmailLists
  /\ job.batchSize \in 1..MaxBatch
  /\ job.at \in {"for", "sendEmails", "delay", "returned"}
  /\ job.pending \in 0..MaxEmails
  /\ job.delays \in 0..MaxEmails
  /\ \A c \in Requests :
       /\ calls[c].at \in {"none", "sendMessage", "delay"}
       /\ calls[c].wait \in {NotPending} \cup 0..SEND_DELAY
       /\ Len(calls[c].contacts) <= MaxContacts
  /\ sinceSend \in {NoAge} \cup 0..SEND_DELAY
  /\ currentAmount \in 0..MaxAmount
  /\ totalAmount \in 0..(MaxUsers * MaxAmount)
  /\ orderOf \in [Users -> {NoAmount} \cup Amounts]
  /\ payAt \in [Users -> {"none", "create", "ordered", "hash", "save", "inc",
                          "done", "failed"}]
  /\ added \in [Users -> {NoAmount} \cup 0..MaxAmount]

\* var currentAmount = 0, an empty PaymentTotal collection, no request yet.
NoPayments ==
  /\ currentAmount = 0
  /\ totalAmount = 0
  /\ orderOf = [u \in Users |-> NoAmount]
  /\ payAt = [u \in Users |-> "none"]
  /\ added = [u \in Users |-> NoAmount]

\* The state once the module has loaded: the declarations, the interval set,
\* startClient() called.
InitWith(tr) ==
  /\ \E ctorOk \in BOOLEAN : Holds(StartClient(Declared, ctorOk))
  /\ sweep = SWEEP_INTERVAL
  /\ awaitLogout = 0
  /\ awaitDestroy = 0
  /\ lastOp = "load"
  /\ track = tr
  /\ discRun = 0
  /\ discRunQ = 0
  /\ followed = FALSE
  /\ attempts = 0
  /\ res = "none"
  /\ checks = 0
  /\ job = NoJob
  /\ calls = [c \in Requests |-> NoCall]
  /\ sinceSend = NoAge
  /\ NoPayments

Init == InitWith(FALSE)

\* The operations the history tells apart; the others are recorded as "-".
Recorded ==
  {"load", "restartSkipped", "startFailed", "get:qr", "sweepCleared", "watchdog",
   "post:restart"}

\* The history after an operation: its name, and the disconnect runs.
Did(op, run, runQ) ==
  /\ lastOp' = IF op \in Recorded THEN op ELSE "-"
  /\ discRun' = IF track THEN Min(run, MaxRun) ELSE 0
  /\ discRunQ' = IF track THEN Min(runQ, MaxRun) ELSE 0
  /\ UNCHANGED track

Rest == UNCHANGED <<sweep, awaitLogout, awaitDestroy, poll, bulk, pay>>

\* ------------------------------------------- events of a connection

Emitters == {"client"} \cup LiveStages

ClientQr(who, qr) ==
  /\ StageOf(Cur, who) \in {"init", "qr"}
  /\ Commit(OnQr(Move(Cur, who, "qr"), qr))
  /\ Did("qr", discRun, 0)
  /\ Rest

ClientAuthenticated(who) ==
  /\ StageOf(Cur, who) \in {"init", "qr"}
  /\ Commit(OnAuthenticated(Move(Cur, who, "auth")))
  /\ Did("authenticated", discRun, discRunQ)
  /\ Rest

ClientReady(who) ==
  /\ StageOf(Cur, who) = "auth"
  /\ LET s == OnReady(Move(Cur, who, "ready"))
     IN /\ Commit(s)
        /\ IF s.clientState = "ready"
           THEN Did("ready", 0, 0)
           ELSE Did("readyFailed", discRun, discRunQ)
  /\ Rest

ClientDisconnected(who, reason) ==
  /\ StageOf(Cur, who) \in {"qr", "auth", "ready"}
  /\ LET s == OnDisconnected(Move(Cur, who, "ended"), reason)
     IN /\ PendingRestarts(s) <= MaxRestarts
        /\ Commit(s)
  /\ IF reason = "NAVIGATION"
     THEN Did("disconnectedManual", discRun, discRunQ)
     ELSE Did("disconnected", discRun + 1, discRunQ + 1)
  /\ Rest

ClientAuthFailure(who) ==
  /\ StageOf(Cur, who) \in {"init", "qr", "auth"}
  /\ Commit(OnAuthFailure(Move(Cur, who, "ended")))
  /\ Did("auth_failure", discRun, discRunQ)
  /\ Rest

ClientError(who) ==
  /\ StageOf(Cur, who) \in LiveStages
  /\ Commit(OnError(Move(Cur, who, "ended")))
  /\ Did("error", discRun, discRunQ)
  /\ Rest

ClientInitializeRejected(who) ==
  /\ StageOf(Cur, who) = "init"
  /\ Commit(OnInitializeRejected(Move(Cur, who, "ended")))
  /\ Did("initializeRejected", discRun, discRunQ)
  /\ Rest

\* ------------------------------------------------------------ timers

\* A pending initialization timeout is due and its callback runs: the one
\* the handle names, or one no handle names any more.
Unname(s, which) ==
  IF which = "named"
  THEN [s EXCEPT !.watchdog = NotPending]
  ELSE [s EXCEPT !.orphans[0] = @ - 1]

InitializationTimeoutFires(which, destroyOk) ==
  /\ IF which = "named" THEN watchdog = 0 ELSE orphans[0] > 0
  /\ Commit(OnInitializationTimeout(Unname(Cur, which), destroyOk))
  /\ Did(IF clientState = "initializing" THEN "watchdog" ELSE "watchdogStale",
         discRun, discRunQ)
  /\ Rest

\* A pending restart timeout fires: one due now (d = 0), or one set within
\* this tick whose 5000 ms end before the tick does.
RestartFires(d, ctorOk) ==
  /\ restarts[d] > 0
  /\ Commit(StartClient([Cur EXCEPT !.restarts[d] = @ - 1], ctorOk))
  /\ Did(IF isInitializing THEN "restartSkipped"
         ELSE IF ctorOk THEN "restart" ELSE "startFailed",
         discRun, discRunQ)
  /\ Rest

SweepFires ==
  /\ sweep = 0
  /\ sweep' = SWEEP_INTERVAL
  /\ Commit(OnSweep(Cur))
  /\ Did(IF QrExpired(Cur) THEN "sweepCleared" ELSE "sweep", discRun, discRunQ)
  /\ UNCHANGED <<awaitLogout, awaitDestroy, poll, bulk, pay>>

\* 10 s pass: no timer is due.
Tick ==
  /\ sweep > 0
  /\ restarts[0] = 0
  /\ watchdog # 0
  /\ orphans[0] = 0
  /\ \A c \in Requests : calls[c].wait # 0
  /\ sweep' = sweep - 1
  /\ watchdog' = IF watchdog = NotPending THEN NotPending ELSE watchdog - 1
  /\ orphans' = [d \in 0..INITIALIZATION_TIMEOUT |->
                   IF d < INITIALIZATION_TIMEOUT THEN orphans[d + 1] ELSE 0]
  /\ restarts' = [d \in 0..RESTART_DELAY |->
                    IF d < RESTART_DELAY THEN restarts[d + 1] ELSE 0]
  /\ qrAge' = IF qrAge = NoAge THEN NoAge ELSE Min(qrAge + 1, QR_TIMEOUT + 1)
  /\ Did("tick", discRun, discRunQ)
  /\ UNCHANGED <<client, qrCodeData, sessionPhone, sessionInfo, isInitializing,
                 reconnectAttempts, clientState, initializationTimeout, stale,
                 awaitLogout, awaitDestroy, poll, job, pay>>
  /\ calls' = [c \in Requests |->
                 IF calls[c].wait = NotPending THEN calls[c]
                 ELSE [calls[c] EXCEPT !.wait = @ - 1]]
  /\ sinceSend' = IF sinceSend = NoAge THEN NoAge ELSE Min(sinceSend + 1, SEND_DELAY)

\* ------------------------------------------ GET /api/whatsapp/qr

\* The handler without its expiry test.
GetQrBranchNoExpiry(s) ==
  IF s.clientState = "qr" /\ s.qrCodeData # NoQr THEN "qr"
  ELSE IF s.clientState = "ready" THEN "ready"
  ELSE IF s.clientState = "initializing" \/ s.isInitializing THEN "initializing"
  ELSE IF /\ s.clientState \in {"disconnected", "auth_failure", "error"}
          /\ ~s.isInitializing
       THEN "restart"
  ELSE "none"

\* The branch the handler takes, in the order of its tests.
GetQrBranch(s) ==
  IF s.clientState = "qr" /\ s.qrCodeData # NoQr
  THEN IF s.qrAge # NoAge /\ s.qrAge > QR_TIMEOUT THEN "expired" ELSE "qr"
  ELSE IF s.clientState = "ready" THEN "ready"
  ELSE IF s.clientState = "initializing" \/ s.isInitializing THEN "initializing"
  ELSE IF /\ s.clientState \in {"disconnected", "auth_failure", "error"}
          /\ ~s.isInitializing
       THEN "restart"
  ELSE "none"

\* The session after the handler, by branch.
OnGetQr(s, ctorOk) ==
  LET b == GetQrBranch(s)
  IN IF b = "expired" THEN [s EXCEPT !.qrCodeData = NoQr, !.qrAge = NoAge]
     ELSE IF b = "restart" THEN StartClient(s, ctorOk)
     ELSE s

GetQr(ctorOk) ==
  /\ Commit(OnGetQr(Cur, ctorOk))
  /\ Did(IF GetQrBranch(Cur) = "restart" /\ ~ctorOk
         THEN "startFailed" ELSE "get:" \o GetQrBranch(Cur),
         discRun, discRunQ)
  /\ Rest

\* ----------------------------------------- POST /api/whatsapp/qr

\* The clearing of a reset without lines 1086-1089: the timeout left pending.
OnResetClearKeepsTimeout(s) ==
  [s EXCEPT !.qrCodeData = NoQr, !.qrAge = NoAge,
            !.sessionPhone = NULL, !.sessionInfo = NULL,
            !.isInitializing = FALSE, !.clientState = "initializing"]

\* Lines 1067-1089: the session data cleared, the timeout cleared.
OnResetClear(s) ==
  ClearInitializationTimeout(
    [s EXCEPT !.qrCodeData = NoQr, !.qrAge = NoAge,
              !.sessionPhone = NULL, !.sessionInfo = NULL,
              !.isInitializing = FALSE, !.clientState = "initializing"])

\* A reset that a connection left alive by a failed destroy() keeps from its
\* restart.
OnResetRestartUnlessLive(s, ctorOk) ==
  IF s.client \in LiveStages THEN s ELSE StartClient(OnResetClear(s), ctorOk)

\* Lines 1067-1093: the session data cleared, the timeout cleared, startClient().
OnResetRestart(s, ctorOk) == StartClient(OnResetClear(s), ctorOk)

\* let attempts = 0; ... setTimeout(checkQR, 2000): the request waits for its
\* first checkQR.  One request's timers are followed at a time; checkQR only
\* reads the session, so the others' change nothing.
SetCheckQR ==
  IF followed /\ res # "pending"
  THEN attempts' = 0 /\ res' = "pending" /\ checks' = 0 /\ UNCHANGED followed
  ELSE UNCHANGED poll

\* The request arrives: with a client it suspends in await client.logout(),
\* without one it runs through to startClient().
PostQrBegin(ctorOk) ==
  /\ awaitLogout + awaitDestroy < MaxResets
  /\ IF client # "undefined"
     THEN /\ awaitLogout' = awaitLogout + 1
          /\ UNCHANGED <<session, env, awaitDestroy, poll>>
          /\ Did("post:logout", discRun, discRunQ)
     ELSE /\ Commit(OnResetRestart(Cur, ctorOk))
          /\ SetCheckQR
          /\ UNCHANGED <<awaitLogout, awaitDestroy>>
          /\ Did(IF ctorOk THEN "post:restart" ELSE "startFailed", discRun, discRunQ)
  /\ UNCHANGED <<sweep, bulk, pay>>

\* logout() has settled (its failure is swallowed); client.destroy() is called
\* on the connection the global refers to now, and awaited.
PostQrAfterLogout(destroyOk) ==
  /\ awaitLogout > 0
  /\ awaitLogout' = awaitLogout - 1
  /\ awaitDestroy' = awaitDestroy + 1
  /\ Commit(Destroy(Cur, destroyOk))
  /\ Did("post:destroy", discRun, discRunQ)
  /\ UNCHANGED <<sweep, poll, bulk, pay>>

\* destroy() has settled: the rest of the handler up to the first checkQR timer.
PostQrAfterDestroy(ctorOk) ==
  /\ awaitDestroy > 0
  /\ awaitDestroy' = awaitDestroy - 1
  /\ Commit(OnResetRestart(Cur, ctorOk))
  /\ SetCheckQR
  /\ Did(IF ctorOk THEN "post:restart" ELSE "startFailed", discRun, discRunQ)
  /\ UNCHANGED <<sweep, awaitLogout, bulk, pay>>

\* checkQR runs, 2000 ms after it was set: it responds, or counts the attempt
\* and sets itself again.  With the response the request and its counters end.
CheckQRBranch(s, n) ==
  IF s.clientState = "qr" /\ s.qrCodeData # NoQr THEN "success"
  ELSE IF n < maxAttempts THEN "again"
  ELSE "failure"

CheckQR ==
  /\ res = "pending"
  /\ LET b == CheckQRBranch(Cur, attempts)
     IN /\ res' = IF b = "again" THEN "pending" ELSE b
        /\ attempts' = IF b = "again" THEN attempts + 1 ELSE 0
        /\ checks' = IF b = "again" THEN checks + 1 ELSE 0
  /\ Did("checkQR", discRun, discRunQ)
  /\ UNCHANGED <<session, env, sweep, awaitLogout, awaitDestroy, followed, bulk, pay>>

\* ------------------------------------- sendEmailsInBatches, sendEmails

\* emails.slice(i, i + batchSize)
Slice(emails, i, n) ==
  SubSeq(emails, i + 1, Min(i + n, Len(emails)))

\* for (let i = 0; i < emails.length; i += batchSize): the test; the batch is
\* sliced and sendEmails(batch) called, or allResults returned.
ForBatch ==
  /\ job.at = "for"
  /\ IF job.i < Len(job.emails)
     THEN LET batch == Slice(job.emails, job.i, job.batchSize)
          IN job' = [job EXCEPT !.at = "sendEmails", !.batch = batch,
                                !.results = <<>>,
                                !.batches = Append(@, Len(batch))]
     ELSE job' = [job EXCEPT !.at = "returned"]
  /\ UNCHANGED <<session, env, sweep, awaitLogout, awaitDestroy, hist, poll,
                 calls, sinceSend, pay>>

\* A loop that calls sendMail without awaiting the one before.
MayCallAlways(j) == TRUE

\* The for...of loop of sendEmails is at a call of sendMail only when the
\* sendMail before it has been awaited.
MayCall(j) == j.pending = 0

\* transporter.sendMail(mailOptions) is called for the next emailData.
SendMail ==
  /\ job.at = "sendEmails"
  /\ Len(job.results) + job.pending < Len(job.batch)
  /\ MayCall(job)
  /\ job' = [job EXCEPT
               !.pending = @ + 1,
               !.sent = Append(@, job.batch[Len(job.results) + job.pending + 1].email)]
  /\ UNCHANGED <<session, env, sweep, awaitLogout, awaitDestroy, hist, poll,
                 calls, sinceSend, pay>>

\* results.push({ email, status }) of the try block or of the catch block.
Push(j, ok) ==
  [j EXCEPT !.pending = @ - 1,
            !.results = Append(@, [email |-> j.batch[Len(j.results) + 1].email,
                                   status |-> IF ok THEN "success" ELSE "failed"]),
            !.raised = Append(@, ~ok)]

\* A sendEmails whose catch block is outside the loop: a rejection ends it.
SettledAborting(j, ok) ==
  IF ok THEN Push(j, ok)
  ELSE [Push(j, ok) EXCEPT !.batch = SubSeq(@, 1, Len(j.results) + 1)]

\* The awaited sendMail settles: the loop goes on with the next emailData.
Settled(j, ok) == Push(j, ok)

SendMailSettles(ok) ==
  /\ job.pending > 0
  /\ job' = Settled(job, ok)
  /\ UNCHANGED <<session, env, sweep, awaitLogout, awaitDestroy, hist, poll,
                 calls, sinceSend, pay>>

\* A delay after every batch.
MoreBatchesAlways(j) == TRUE

\* if (i + batchSize < emails.length)
MoreBatches(j) == j.i + j.batchSize < Len(j.emails)

\* sendEmails returns its results: they are concatenated, and the delay is
\* awaited if there is another batch.
SendEmailsReturns ==
  /\ job.at = "sendEmails"
  /\ Len(job.results) = Len(job.batch)
  /\ job.pending = 0
  /\ LET j == [job EXCEPT !.allResults = @ \o job.results]
     IN job' = IF MoreBatches(j)
               THEN [j EXCEPT !.at = "delay", !.delays = @ + 1]
               ELSE [j EXCEPT !.at = "for", !.i = @ + j.batchSize]
  /\ UNCHANGED <<session, env, sweep, awaitLogout, awaitDestroy, hist, poll,
                 calls, sinceSend, pay>>

\* The delay's timeout resolves it.
DelayResolves ==
  /\ job.at = "delay"
  /\ job' = [job EXCEPT !.at = "for", !.i = @ + job.batchSize]
  /\ UNCHANGED <<session, env, sweep, awaitLogout, awaitDestroy, hist, poll,
                 calls, sinceSend, pay>>

\* ------------------------------------------ POST /api/whatsapp/send

\* if (!client || !sessionInfo) return res.status(400): whether it is passed.
HasSession(s) == s.client # "undefined" /\ s.sessionInfo # NULL

\* The loop up to its next await: contacts whose phone fails the test get their
\* result and `continue`; what is left starts with the contact to send to.
RECURSIVE SkipInvalid(_)
SkipInvalid(contacts) ==
  IF contacts = <<>> THEN <<>>
  ELSE IF Head(contacts) THEN contacts
  ELSE SkipInvalid(Tail(contacts))

\* The loop runs from `contacts` on: client.sendMessage(number, message) is
\* called and awaited, or the loop is over and res.json(...) ends the request.
RunLoop(c, contacts) ==
  LET left == SkipInvalid(contacts)
  IN IF left = <<>>
     THEN calls' = [calls EXCEPT ![c] = NoCall] /\ UNCHANGED sinceSend
     ELSE /\ calls' = [calls EXCEPT ![c] = [contacts |-> left, at |-> "sendMessage",
                                            wait |-> NotPending]]
          /\ sinceSend' = 0

\* The three tests of lines 1122-1133, each returning res.status(400): whether
\* the request passes them.  msgOk: message is a string that is not blank.
Accepted(s, contacts, msgOk) ==
  HasSession(s) /\ contacts # <<>> /\ msgOk

\* The request arrives.
PostSend(c, contacts, msgOk) ==
  /\ calls[c].at = "none"
  /\ \A d \in Requests : d < c => calls[d].at # "none"
  /\ IF Accepted(Cur, contacts, msgOk)
     THEN RunLoop(c, contacts)
     ELSE UNCHANGED <<calls, sinceSend>>
  /\ Did(IF Accepted(Cur, contacts, msgOk) THEN "send" ELSE "send:400",
         discRun, discRunQ)
  /\ UNCHANGED <<session, env, sweep, awaitLogout, awaitDestroy, poll, job, pay>>

\* The awaited sendMessage resolves or rejects: the result is pushed either
\* way and delay(10000) is awaited.
SendMessageSettles(c) ==
  /\ calls[c].at = "sendMessage"
  /\ calls' = [calls EXCEPT ![c] = [contacts |-> Tail(calls[c].contacts),
                                    at |-> "delay", wait |-> SEND_DELAY]]
  /\ Did("sendMessage:settled", discRun, discRunQ)
  /\ UNCHANGED <<session, env, sweep, awaitLogout, awaitDestroy, poll, job, sinceSend,
                 pay>>

\* The delay is over: the loop goes on with the next contact.
SendDelayFires(c) ==
  /\ calls[c].at = "delay"
  /\ calls[c].wait = 0
  /\ RunLoop(c, calls[c].contacts)
  /\ Did("send:next", discRun, discRunQ)
  /\ UNCHANGED <<session, env, sweep, awaitLogout, awaitDestroy, poll, job, pay>>

\* ------------------------------------------------------ specification

Next ==
  \/ \E who \in Emitters, qr \in Payloads : ClientQr(who, qr)
  \/ \E who \in Emitters : ClientAuthenticated(who)
  \/ \E who \in Emitters : ClientReady(who)
  \/ \E who \in Emitters, reason \in {"NAVIGATION", "LOGOUT"} :
       ClientDisconnected(who, reason)
  \/ \E who \in Emitters : ClientAuthFailure(who)
  \/ \E who \in Emitters : ClientError(who)
  \/ \E who \in Emitters : ClientInitializeRejected(who)
  \/ \E which \in {"named", "orphan"}, ok \in BOOLEAN :
       InitializationTimeoutFires(which, ok)
  \/ \E d \in 0..RESTART_DELAY, ok \in BOOLEAN : RestartFires(d, ok)
  \/ SweepFires
  \/ Tick
  \/ \E ok \in BOOLEAN : GetQr(ok)
  \/ \E ok \in BOOLEAN : PostQrBegin(ok)
  \/ \E ok \in BOOLEAN : PostQrAfterLogout(ok)
  \/ \E ok \in BOOLEAN : PostQrAfterDestroy(ok)

Spec == Init /\ [][Next]_vars

\* The same program with the disconnect runs of the history counted.
SpecRuns == InitWith(TRUE) /\ [][Next]_vars

\* Timers fire when due and time passes.
Fairness ==
  /\ WF_vars(Tick)
  /\ WF_vars(SweepFires)
  /\ WF_vars(\E which \in {"named", "orphan"}, ok \in BOOLEAN :
               InitializationTimeoutFires(which, ok))
  /\ WF_vars(\E d \in 0..RESTART_DELAY, ok \in BOOLEAN : RestartFires(d, ok))

LiveSpec == Spec /\ Fairness

\* The session of the connection the global refers to, with its timers, and
\* the POST /api/whatsapp/send requests.
SendNext ==
  \/ \E qr \in Payloads : ClientQr("client", qr)
  \/ ClientAuthenticated("client")
  \/ ClientReady("client")
  \/ \E reason \in {"NAVIGATION", "LOGOUT"} : ClientDisconnected("client", reason)
  \/ ClientAuthFailure("client")
  \/ ClientError("client")
  \/ ClientInitializeRejected("client")
  \/ \E which \in {"named", "orphan"}, ok \in BOOLEAN :
       InitializationTimeoutFires(which, ok)
  \/ \E d \in 0..RESTART_DELAY, ok \in BOOLEAN : RestartFires(d, ok)
  \/ SweepFires
  \/ Tick
  \/ \E c \in Requests, contacts \in ContactLists, msgOk \in BOOLEAN :
       PostSend(c, contacts, msgOk)
  \/ \E c \in Requests : SendMessageSettles(c)
  \/ \E c \in Requests : SendDelayFires(c)

SendSpec == Init /\ [][SendNext]_vars

\* One call sendEmailsInBatches(emails, subject, body, batchSize, delayMs)
\* followed from its first statement to its return.
MailInit ==
  /\ \E ctorOk \in BOOLEAN : Holds(StartClient(Declared, ctorOk))
  /\ sweep = SWEEP_INTERVAL
  /\ awaitLogout = 0
  /\ awaitDestroy = 0
  /\ lastOp = "load"
  /\ track = FALSE
  /\ discRun = 0
  /\ discRunQ = 0
  /\ followed = FALSE
  /\ attempts = 0
  /\ res = "none"
  /\ checks = 0
  /\ \E emails \in EmailLists, batchSize \in 1..MaxBatch :
       job = [NoJob EXCEPT !.emails = emails, !.batchSize = batchSize, !.at = "for"]
  /\ calls = [c \in Requests |-> NoCall]
  /\ sinceSend = NoAge
  /\ NoPayments

MailNext ==
  \/ ForBatch
  \/ SendMail
  \/ \E ok \in BOOLEAN : SendMailSettles(ok)
  \/ SendEmailsReturns
  \/ DelayResolves

MailSpec == MailInit /\ [][MailNext]_vars

\* One POST /api/whatsapp/qr request followed through its checkQR timers, with
\* every event of the connections and every timer of the session.
PollInit ==
  /\ \E ctorOk \in BOOLEAN : Holds(StartClient(Declared, ctorOk))
  /\ sweep = SWEEP_INTERVAL
  /\ awaitLogout = 0
  /\ awaitDestroy = 0
  /\ lastOp = "load"
  /\ track = FALSE
  /\ discRun = 0
  /\ discRunQ = 0
  /\ followed = TRUE
  /\ attempts = 0
  /\ res = "none"
  /\ checks = 0
  /\ job = NoJob
  /\ calls = [c \in Requests |-> NoCall]
  /\ sinceSend = NoAge
  /\ NoPayments

\* The one POST request of the scenario.
PostQrOnce(ctorOk) ==
  /\ res = "none"
  /\ awaitLogout + awaitDestroy = 0
  /\ PostQrBegin(ctorOk)

PollNext ==
  \/ \E who \in Emitters, qr \in Payloads : ClientQr(who, qr)
  \/ \E who \in Emitters : ClientAuthenticated(who)
  \/ \E who \in Emitters : ClientReady(who)
  \/ \E who \in Emitters, reason \in {"NAVIGATION", "LOGOUT"} :
       ClientDisconnected(who, reason)
  \/ \E who \in Emitters : ClientAuthFailure(who)
  \/ \E who \in Emitters : ClientError(who)
  \/ \E who \in Emitters : ClientInitializeRejected(who)
  \/ \E which \in {"named", "orphan"}, ok \in BOOLEAN :
       InitializationTimeoutFires(which, ok)
  \/ \E d \in 0..RESTART_DELAY, ok \in BOOLEAN : RestartFires(d, ok)
  \/ SweepFires
  \/ Tick
  \/ \E ok \in BOOLEAN : PostQrOnce(ok)
  \/ \E ok \in BOOLEAN : PostQrAfterLogout(ok)
  \/ \E ok \in BOOLEAN : PostQrAfterDestroy(ok)
  \/ CheckQR

PollSpec == PollInit /\ [][PollNext]_vars

\* The timers of the session: one of them runs when it is due, or time passes.
TimersRun ==
  \/ Tick
  \/ SweepFires
  \/ \E which \in {"named", "orphan"}, ok \in BOOLEAN :
       InitializationTimeoutFires(which, ok)
  \/ \E d \in 0..RESTART_DELAY, ok \in BOOLEAN : RestartFires(d, ok)

\* The timers run and a checkQR that is set runs.
PollLive == PollSpec /\ WF_vars(TimersRun) /\ WF_vars(CheckQR)

\* ------------------------- POST /api/create-order, /api/verify-payment

FrozenForPayments ==
  UNCHANGED <<session, env, sweep, awaitLogout, awaitDestroy, hist, poll, bulk>>

\* POST /api/create-order arrives: currentAmount = amount/100, then the handler
\* awaits razorpay.orders.create(options).
CreateOrder(u, amount) ==
  /\ payAt[u] = "none"
  /\ currentAmount' = amount \div PAISE
  /\ orderOf' = [orderOf EXCEPT ![u] = amount]
  /\ payAt' = [payAt EXCEPT ![u] = "create"]
  /\ UNCHANGED <<totalAmount, added>>
  /\ FrozenForPayments

\* orders.create settles: the order is there, or the request fails with 500.
OrderCreated(u, ok) ==
  /\ payAt[u] = "create"
  /\ payAt' = [payAt EXCEPT ![u] = IF ok THEN "ordered" ELSE "failed"]
  /\ UNCHANGED <<currentAmount, totalAmount, orderOf, added>>
  /\ FrozenForPayments

\* POST /api/verify-payment arrives for the user's order: 400 on a signature
\* that does not match, otherwise the handler awaits bcrypt.hash.
VerifyPayment(u, sigOk) ==
  /\ payAt[u] = "ordered"
  /\ payAt' = [payAt EXCEPT ![u] = IF sigOk THEN "hash" ELSE "ordered"]
  /\ UNCHANGED <<currentAmount, totalAmount, orderOf, added>>
  /\ FrozenForPayments

\* bcrypt.hash settles: newMember.save() is called and awaited.
HashSettles(u, ok) ==
  /\ payAt[u] = "hash"
  /\ payAt' = [payAt EXCEPT ![u] = IF ok THEN "save" ELSE "failed"]
  /\ UNCHANGED <<currentAmount, totalAmount, orderOf, added>>
  /\ FrozenForPayments

\* save() settles: PaymentTotal.findOneAndUpdate({}, { $inc: { totalAmount:
\* currentAmount } }, ...) is called with the value currentAmount has now, or
\* the request fails (duplicate email: 400).
SaveSettles(u, ok) ==
  /\ payAt[u] = "save"
  /\ payAt' = [payAt EXCEPT ![u] = IF ok THEN "inc" ELSE "failed"]
  /\ added' = [added EXCEPT ![u] = IF ok THEN currentAmount ELSE NoAmount]
  /\ UNCHANGED <<currentAmount, totalAmount, orderOf>>
  /\ FrozenForPayments

\* findOneAndUpdate settles: the document has the operand added, or the request
\* fails with 500 and nothing is added.
IncSettles(u, ok) ==
  /\ payAt[u] = "inc"
  /\ payAt' = [payAt EXCEPT ![u] = IF ok THEN "done" ELSE "failed"]
  /\ totalAmount' = IF ok THEN totalAmount + added[u] ELSE totalAmount
  /\ added' = [added EXCEPT ![u] = IF ok THEN @ ELSE NoAmount]
  /\ UNCHANGED <<currentAmount, orderOf>>
  /\ FrozenForPayments

\* The create-order and verify-payment requests of the users, one order each.
PayInit ==
  /\ \E ctorOk \in BOOLEAN : Holds(StartClient(Declared, ctorOk))
  /\ sweep = SWEEP_INTERVAL
  /\ awaitLogout = 0
  /\ awaitDestroy = 0
  /\ lastOp = "load"
  /\ track = FALSE
  /\ discRun = 0
  /\ discRunQ = 0
  /\ followed = FALSE
  /\ attempts = 0
  /\ res = "none"
  /\ checks = 0
  /\ job = NoJob
  /\ calls = [c \in Requests |-> NoCall]
  /\ sinceSend = NoAge
  /\ NoPayments

PayNext ==
  \/ \E u \in Users, amount \in Amounts : CreateOrder(u, amount)
  \/ \E u \in Users, ok \in BOOLEAN : OrderCreated(u, ok)
  \/ \E u \in Users, sigOk \in BOOLEAN : VerifyPayment(u, sigOk)
  \/ \E u \in Users, ok \in BOOLEAN : HashSettles(u, ok)
  \/ \E u \in Users, ok \in BOOLEAN : SaveSettles(u, ok)
  \/ \E u \in Users, ok \in BOOLEAN : IncSettles(u, ok)

PaySpec == PayInit /\ [][PayNext]_vars

\* ------------------------------------------------------------ claims

\* Connections constructed by startClient() whose initialization is in flight:
\* initialize() called, nothing emitted, not destroyed.
InFlight == (IF client = "init" THEN 1 ELSE 0) + stale["init"]

\* C1: at most one connection-initialization attempt is in flight at any time.
C1_AtMostOneInFlight == InFlight <= 1

C3_QrOnlyInQrPending == qrCodeData # NoQr => clientState = "qr"

\* C4: sessionIdentity is non-null only while the state is exactly Ready.
C4_IdentityOnlyInReady ==
  (sessionInfo # NULL \/ sessionPhone # NULL) => clientState = "ready"

\* C5: whenever the state is Ready the identity is non-null and the QR payload
\* is null.
C5_ReadyHasIdentityAndNoQr ==
  clientState = "ready" =>
    /\ sessionInfo # NULL
    /\ sessionPhone # NULL
    /\ qrCodeData = NoQr
    /\ qrAge = NoAge

C5_Witness == clientState = "ready" /\ sessionInfo = INFO

\* C6: reconnectAttempts is always between 0 and MAX_RECONNECT_ATTEMPTS.
C6_AttemptsWithinCap ==
  reconnectAttempts >= 0 /\ reconnectAttempts <= MAX_RECONNECT_ATTEMPTS

C6_Witness == reconnectAttempts = MAX_RECONNECT_ATTEMPTS

\* A disconnected event with a reason other than the manual-logout one.
Disconnects == \E who \in Emitters : ClientDisconnected(who, "LOGOUT")

\* What the sixth such disconnect must do: leave the state Disconnected, the
\* counter as it was, and set no restart timeout.
NoRetry ==
  /\ clientState' = "disconnected"
  /\ reconnectAttempts' = reconnectAttempts
  /\ restarts' = restarts

\* C7 as stated: the sixth non-manual disconnect with no Ready event since the
\* first does not retry, whatever other events came between.
C7_SixthSinceReady ==
  [][ (Disconnects /\ discRun >= MAX_RECONNECT_ATTEMPTS) => NoRetry ]_vars

\* C7 as amended: the sixth non-manual disconnect with neither a Ready nor a QR
\* event since the first does not retry.
C7_SixthSinceReadyOrQr ==
  [][ (Disconnects /\ discRunQ >= MAX_RECONNECT_ATTEMPTS) => NoRetry ]_vars

C7_Witness ==
  /\ discRunQ = MAX_RECONNECT_ATTEMPTS + 1
  /\ clientState = "disconnected"
  /\ reconnectAttempts = MAX_RECONNECT_ATTEMPTS

\* C8: a QR payload the status query returns is held in state QRPending and is
\* not older than QR_TIMEOUT.
C8_ReturnedQrIsFresh ==
  lastOp = "get:qr" =>
    /\ clientState = "qr"
    /\ qrCodeData # NoQr
    /\ qrAge # NoAge
    /\ qrAge <= QR_TIMEOUT

C8_Witness == lastOp = "get:qr" /\ qrAge = QR_TIMEOUT

\* C9: a stored QR payload older than QR_TIMEOUT is eventually cleared, in
\* whatever session state it is held.
C9_ExpiredQrIsCleared == QrExpired(Cur) ~> ~QrExpired(Cur)

C9_Witness == lastOp = "sweepCleared" /\ clientState # "qr"

\* C10: the watchdog firing while Initializing sets Error, tears the connection
\* down (when destroy() succeeds) and sets a restart timeout, whatever the
\* value of reconnectAttempts; startClient() then runs again and sets the state
\* Initializing (the catch block making it Error when the construction throws).
WatchdogActs(ok) ==
  /\ clientState = "initializing"
  /\ InitializationTimeoutFires("named", ok)

C10_WatchdogRestarts ==
  /\ [][ \A ok \in BOOLEAN :
           WatchdogActs(ok) =>
             /\ clientState' = "error"
             /\ ~isInitializing'
             /\ (ok /\ client # "undefined" => client' = "ended")
             /\ restarts'[RESTART_DELAY] = restarts[RESTART_DELAY] + 1
             /\ reconnectAttempts' = reconnectAttempts ]_vars
  /\ (lastOp = "watchdog") ~> (clientState = "initializing" \/ lastOp = "startFailed")

C10_Witness ==
  /\ lastOp = "watchdog"
  /\ clientState = "error"
  /\ reconnectAttempts = MAX_RECONNECT_ATTEMPTS

\* C11: once the reset of a POST /api/whatsapp/qr has run and its checkQR is
\* set, the session reaches state 'qr' or the request responds with the failure
\* of its last attempt; and the state does not stay 'initializing' forever,
\* whatever the connections do.
C11_ResetReachesQrOrFails ==
  /\ (res = "pending") ~> (clientState = "qr" \/ res = "failure")
  /\ (clientState = "initializing") ~> (clientState # "initializing")

C11_Witness == res = "failure" /\ clientState = "initializing"

\* The addresses of a list, in its order.
EmailsOf(list) == [k \in 1..Len(list) |-> list[k].email]

\* C12: the outcome list sendEmailsInBatches returns has the length and order
\* of the recipient list, outcome k is 'failed' exactly when the k-th sendMail
\* raised, and every recipient was sent to exactly once, in order, whatever
\* failed before it.
C12_OutcomesFollowRecipients ==
  job.at = "returned" =>
    /\ Len(job.allResults) = Len(job.emails)
    /\ EmailsOf(job.allResults) = EmailsOf(job.emails)
    /\ Len(job.raised) = Len(job.emails)
    /\ \A k \in 1..Len(job.emails) :
         (job.allResults[k].status = "failed") <=> job.raised[k]
    /\ job.sent = EmailsOf(job.emails)

C12_Witness ==
  /\ job.at = "returned"
  /\ Len(job.emails) = 3
  /\ job.batchSize = 2
  /\ job.raised = <<FALSE, TRUE, FALSE>>

\* ceil(n / b)
Ceil(n, b) == (n + b - 1) \div b

\* C13: n recipients with batch size b are processed in ceil(n/b) contiguous
\* batches, all of size b except possibly the last, with the delay awaited
\* max(0, ceil(n/b) - 1) times, between batches only.
C13_BatchesAndDelays ==
  LET n == Len(job.emails)
      b == job.batchSize
  IN /\ job.at = "returned" =>
          /\ Len(job.batches) = Ceil(n, b)
          /\ \A k \in 1..Len(job.batches) :
               job.batches[k] = IF k < Ceil(n, b) THEN b ELSE n - b * (Ceil(n, b) - 1)
          /\ job.delays = IF Ceil(n, b) = 0 THEN 0 ELSE Ceil(n, b) - 1
     /\ job.at = "delay" => Len(job.allResults) < n
     /\ job.delays <= IF Len(job.batches) = 0 THEN 0
                      ELSE IF job.at = "delay" THEN Len(job.batches)
                      ELSE Len(job.batches) - (IF job.at = "sendEmails" THEN 1 ELSE 0)
     /\ (n = 0 \/ b >= n) => job.delays = 0

C13_Witness ==
  /\ job.at = "returned"
  /\ job.batches = <<2, 2, 1>>
  /\ job.delays = 2

\* C14: within one call the sends are sequential: at most one sendMail is in
\* flight, sendMail k+1 is called only when sendMail k has settled, and the
\* calls are made in the order of the recipients.
C14_SendsAreSequential ==
  /\ job.pending <= 1
  /\ Len(job.sent) = Len(job.raised) + job.pending
  /\ Len(job.sent) <= Len(job.emails)
  /\ job.sent = SubSeq(EmailsOf(job.emails), 1, Len(job.sent))

C14_Witness ==
  /\ job.pending = 1
  /\ Len(job.sent) = 2
  /\ Len(job.raised) = 1

\* A POST /api/whatsapp/send request arrives.
SendRequested ==
  \E c \in Requests, contacts \in ContactLists, msgOk \in BOOLEAN :
    PostSend(c, contacts, msgOk)

\* C15: a POST /api/whatsapp/send arriving while the session state is not
\* 'ready' is rejected: no loop is entered and no sendMessage is called.
C15_SendRejectedUnlessReady ==
  [][ (SendRequested /\ clientState # "ready") => UNCHANGED <<calls, sinceSend>> ]_vars

\* client.sendMessage is called for a contact after the first one sent to.
SendsNext(c) == SendDelayFires(c) /\ calls'[c].at = "sendMessage"

\* C16: sendMessage is called for a later contact of a request only while the
\* session state is 'ready'.
C16_LaterSendsAreGated ==
  [][ (\E c \in Requests : SendsNext(c)) => clientState = "ready" ]_vars

\* client.sendMessage is called, by a request arriving or by one going on.
CallsSendMessage ==
  \E c \in Requests : calls[c].at # "sendMessage" /\ calls'[c].at = "sendMessage"

\* C17: client.sendMessage is called only when the delay of 10 s has passed
\* since it was called last.
C17_SendsArePaced ==
  [][ CallsSendMessage => (sinceSend = NoAge \/ sinceSend >= SEND_DELAY) ]_vars

\* The terminal failure states with no initialization in flight: Disconnected
\* with the retry cap exhausted, AuthFailure, Error.
TerminalFailure(s) ==
  /\ \/ s.clientState = "disconnected" /\ s.reconnectAttempts >= MAX_RECONNECT_ATTEMPTS
     \/ s.clientState \in {"auth_failure", "error"}
  /\ ~s.isInitializing

\* C18: GET /api/whatsapp/qr calls startClient() when, and only when, the
\* state is a terminal failure state and no initialization is in flight.
C18_StatusStartsOnlyWhenTerminal ==
  [][ (\E ok \in BOOLEAN : GetQr(ok)) =>
        ((GetQrBranch(Cur) = "restart") <=> TerminalFailure(Cur)) ]_vars

\* C19: the checkQR of a POST /api/whatsapp/qr runs at most maxAttempts times:
\* the failure is the response of a run that is no later than the 15th.
C19_FailureWithinMaxAttempts ==
  [][ (res = "pending" /\ res' = "failure") => checks + 1 <= maxAttempts ]_vars

\* The session is left Disconnected at the cap, with no restart pending.
LeftAtCap ==
  /\ clientState = "disconnected"
  /\ reconnectAttempts >= MAX_RECONNECT_ATTEMPTS
  /\ ~isInitializing
  /\ PendingRestarts(Cur) = 0

\* startClient() passes its guard: an initialization attempt starts.
Starts == ~isInitializing /\ (isInitializing' \/ lastOp' = "startFailed")

ByReset == \E ok \in BOOLEAN : PostQrBegin(ok) \/ PostQrAfterDestroy(ok)
ByStatus == \E ok \in BOOLEAN : GetQr(ok)

\* C20 as stated: with the session left Disconnected at the cap, an
\* initialization attempt starts only by a POST /api/whatsapp/qr.
C20_OnlyResetResumes ==
  [][ (LeftAtCap /\ Starts) => ByReset ]_vars

\* C20 as amended: a disconnect at the cap sets no restart, and with the
\* session left Disconnected at the cap an initialization attempt starts only
\* by a POST /api/whatsapp/qr or by the restart of a GET /api/whatsapp/qr.
C20_OnlyResetOrStatusResumes ==
  [][ /\ (Disconnects /\ reconnectAttempts >= MAX_RECONNECT_ATTEMPTS) =>
           (restarts' = restarts /\ clientState' = "disconnected")
      /\ (LeftAtCap /\ Starts) => (ByReset \/ ByStatus) ]_vars

C20_Witness == LeftAtCap /\ InFlight = 0 /\ lastOp = "-"

\* The state table: the valid next states of each state.
TableNext(from) ==
  CASE from = "initializing"  -> {"qr", "authenticated", "ready", "auth_failure", "error"}
    [] from = "qr"            -> {"authenticated", "disconnected", "auth_failure", "error"}
    [] from = "authenticated" -> {"ready", "error"}
    [] from = "ready"         -> {"disconnected"}
    [] OTHER                  -> {"initializing"}

\* A change of state the table allows: one of its transitions, a force reset
\* (to Initializing, or on to Error when the construction throws), or a
\* start() the table allows whose construction throws.
TableStep ==
  \/ clientState' \in TableNext(clientState)
  \/ ByReset /\ clientState' \in {"initializing", "error"}
  \/ /\ lastOp' = "startFailed"
     /\ "initializing" \in TableNext(clientState)
     /\ clientState' = "error"

\* C21: every change of the session state is a transition of the state table
\* or a force reset.
C21_ChangesFollowTable ==
  [][ clientState' # clientState => TableStep ]_vars

\* A POST /api/whatsapp/qr is between its beginning and its startClient():
\* suspended in await client.logout() or in await client.destroy().
InReset == awaitLogout + awaitDestroy > 0

\* A suspended POST /api/whatsapp/qr goes on.
ResetContinues ==
  \E ok \in BOOLEAN : PostQrAfterLogout(ok) \/ PostQrAfterDestroy(ok)

\* C22: between the beginning and the end of a force reset no event handler,
\* timer callback or other request changes the session fields.
C22_ResetIsAtomic ==
  [][ (InReset /\ ~ResetContinues) =>
        UNCHANGED <<client, qrCodeData, sessionPhone, sessionInfo, isInitializing,
                    reconnectAttempts, clientState, initializationTimeout>> ]_vars

\* startClient() is called, by a restart timeout or by the restart branch of
\* GET /api/whatsapp/qr, and its construction does not throw.
StartInvoked ==
  \/ \E d \in 0..RESTART_DELAY : RestartFires(d, TRUE)
  \/ GetQrBranch(Cur) = "restart" /\ GetQr(TRUE)

\* C23: startClient() called in a state other than Initializing sets the state
\* Initializing, sets a fresh initialization timeout, constructs one new
\* connection, and leaves no QR payload and no identity of the session before.
C23_StartAlwaysRestarts ==
  [][ (StartInvoked /\ clientState # "initializing") =>
        /\ clientState' = "initializing"
        /\ watchdog' = INITIALIZATION_TIMEOUT
        /\ client' = "init"
        /\ qrCodeData' = NoQr
        /\ sessionInfo' = NULL
        /\ sessionPhone' = NULL ]_vars

\* Pending initialization timeouts: the one the handle names and the ones no
\* handle names.
PendingTimeouts(s) ==
  LET RECURSIVE Sum(_)
      Sum(d) == IF d < 0 THEN 0 ELSE s.orphans[d] + Sum(d - 1)
  IN (IF s.watchdog = NotPending THEN 0 ELSE 1) + Sum(INITIALIZATION_TIMEOUT)

\* C24: an initialization timeout is pending only while the state is
\* Initializing, and then it is the one of the current attempt: every step out
\* of Initializing leaves none pending, and none fires in another state.
C24_WatchdogOnlyWhileInitializing ==
  /\ [](PendingTimeouts(Cur) > 0 =>
          /\ clientState = "initializing"
          /\ PendingTimeouts(Cur) = 1
          /\ watchdog # NotPending
          /\ initializationTimeout = HANDLE)
  /\ [][ (clientState = "initializing" /\ clientState' # "initializing") =>
          PendingTimeouts(Cur)' = 0 ]_vars
  /\ [][ (\E which \in {"named", "orphan"}, ok \in BOOLEAN :
             InitializationTimeoutFires(which, ok)) =>
          clientState = "initializing" ]_vars

C24_Witness ==
  /\ clientState = "authenticated"
  /\ isInitializing
  /\ initializationTimeout = NULL
  /\ PendingTimeouts(Cur) = 0

\* C25: a 'disconnected' event clears the initialization timeout, the QR
\* payload and the identity and sets the state Disconnected; it sets the
\* restart timeout and adds 1 to reconnectAttempts exactly when the reason is
\* not the manual logout and reconnectAttempts was below the cap; otherwise it
\* sets no timeout and leaves the counter.
C25_DisconnectedHandler ==
  [][ \A who \in Emitters, reason \in {"NAVIGATION", "LOGOUT"} :
        ClientDisconnected(who, reason) =>
          /\ clientState' = "disconnected"
          /\ watchdog' = NotPending
          /\ initializationTimeout' = NULL
          /\ qrCodeData' = NoQr
          /\ qrAge' = NoAge
          /\ sessionInfo' = NULL
          /\ sessionPhone' = NULL
          /\ IF reason # "NAVIGATION" /\ reconnectAttempts < MAX_RECONNECT_ATTEMPTS
             THEN /\ reconnectAttempts' = reconnectAttempts + 1
                  /\ restarts' = [restarts EXCEPT ![RESTART_DELAY] = @ + 1]
             ELSE /\ reconnectAttempts' = reconnectAttempts
                  /\ restarts' = restarts ]_vars

C25_Witness ==
  /\ clientState = "disconnected"
  /\ reconnectAttempts = MAX_RECONNECT_ATTEMPTS - 1
  /\ restarts[RESTART_DELAY] = 1
  /\ ~isInitializing

\* An 'auth_failure' or an 'error' event of a connection.
FailureEvent ==
  \E who \in Emitters : ClientAuthFailure(who) \/ ClientError(who)

\* C26: after an 'auth_failure' and after an 'error' event the initialization
\* timeout is cleared, the QR payload and the identity are null, the state is
\* AuthFailure or Error, and the handler has set no restart.
C26_FailureHandlersClear ==
  [][ FailureEvent =>
        /\ clientState' \in {"auth_failure", "error"}
        /\ watchdog' = NotPending
        /\ initializationTimeout' = NULL
        /\ qrCodeData' = NoQr
        /\ sessionInfo' = NULL
        /\ sessionPhone' = NULL
        /\ restarts' = restarts ]_vars

\* C27: a 'ready' event whose client.info is there sets the state Ready, stores
\* the identity, clears the QR payload and its time and resets
\* reconnectAttempts; when client.info is not there the state becomes Error.
C27_ReadyHandler ==
  [][ \A who \in Emitters :
        ClientReady(who) =>
          /\ watchdog' = NotPending
          /\ IF ClientInfo(Move(Cur, who, "ready")) # NULL
             THEN /\ clientState' = "ready"
                  /\ sessionInfo' = INFO
                  /\ sessionPhone' = INFO
                  /\ qrCodeData' = NoQr
                  /\ qrAge' = NoAge
                  /\ reconnectAttempts' = 0
             ELSE clientState' = "error" ]_vars

C27_Witness ==
  /\ clientState = "ready"
  /\ client = "ready"
  /\ sessionPhone = INFO
  /\ qrAge = NoAge
  /\ reconnectAttempts = 0
  /\ lastOp = "-"

\* C28: after a 'qr' event the state is QRPending, the QR payload is the one of
\* the event and its time is now, the identity is null, reconnectAttempts is 0
\* and no initialization timeout is pending.
C28_QrHandler ==
  [][ \A who \in Emitters, qr \in Payloads :
        ClientQr(who, qr) =>
          /\ clientState' = "qr"
          /\ qrCodeData' = qr
          /\ qrAge' = 0
          /\ sessionInfo' = NULL
          /\ sessionPhone' = NULL
          /\ reconnectAttempts' = 0
          /\ PendingTimeouts(Cur)' = 0 ]_vars

C28_Witness ==
  /\ clientState = "qr"
  /\ qrCodeData \in Payloads
  /\ qrAge = 0
  /\ reconnectAttempts = 0
  /\ PendingRestarts(Cur) = 1

\* C29: an 'authenticated' event sets the state Authenticated and clears the
\* initialization timeout; the QR payload and its time stay as they were.
C29_AuthenticatedKeepsQr ==
  [][ (\E who \in Emitters : ClientAuthenticated(who)) =>
        /\ clientState' = "authenticated"
        /\ watchdog' = NotPending
        /\ initializationTimeout' = NULL
        /\ qrCodeData' = qrCodeData
        /\ qrAge' = qrAge ]_vars

C29_Witness ==
  /\ clientState = "authenticated"
  /\ qrCodeData \in Payloads
  /\ qrAge = 2
  /\ lastOp = "-"

\* A POST /api/whatsapp/qr reaches its call of startClient().
ResetCallsStart ==
  \E ok \in BOOLEAN :
    \/ client = "undefined" /\ PostQrBegin(ok)
    \/ PostQrAfterDestroy(ok)

\* C30: when the reset calls startClient() the session fields are at their
\* defaults: no QR payload and no time of it, no identity, reconnectAttempts 0,
\* and no initialization timeout of an earlier attempt pending.
C30_ResetStartsFromDefaults ==
  [][ ResetCallsStart =>
        LET s == OnResetClear(Cur)
        IN /\ s.qrCodeData = NoQr
           /\ s.qrAge = NoAge
           /\ s.sessionInfo = NULL
           /\ s.sessionPhone = NULL
           /\ s.reconnectAttempts = 0
           /\ PendingTimeouts(s) = 0 ]_vars

\* C31: a POST /api/whatsapp/qr suspended in logout() or in destroy() can always
\* go on, whether the call succeeded or raised; after logout() it calls
\* destroy(), and after destroy(), failed or not, it clears the session fields
\* and calls startClient().
C31_ResetSurvivesTeardownFailures ==
  /\ [](awaitLogout > 0 => \A ok \in BOOLEAN : ENABLED PostQrAfterLogout(ok))
  /\ [](awaitDestroy > 0 => \A ok \in BOOLEAN : ENABLED PostQrAfterDestroy(ok))
  /\ [][ \A ok \in BOOLEAN :
           /\ PostQrAfterLogout(ok) => awaitDestroy' = awaitDestroy + 1
           /\ PostQrAfterDestroy(ok) =>
                /\ qrCodeData' = NoQr
                /\ qrAge' = NoAge
                /\ sessionInfo' = NULL
                /\ sessionPhone' = NULL
                /\ IF ok
                   THEN /\ clientState' = "initializing"
                        /\ isInitializing'
                        /\ client' = "init"
                        /\ watchdog' = INITIALIZATION_TIMEOUT
                   ELSE clientState' = "error" /\ ~isInitializing' ]_vars

\* The reset has restarted with the connection it could not destroy alive.
C31_Witness ==
  /\ lastOp = "post:restart"
  /\ client = "init"
  /\ isInitializing
  /\ Followed(Cur) = 1

\* A contact of the request has a phone that fails the test of line 1141.
Malformed(contacts) == \E k \in DOMAIN contacts : ~contacts[k]

\* C32: a POST /api/whatsapp/send with no session, with a blank message or with
\* a malformed contact is rejected when it arrives: no loop is entered and no
\* message of the request is sent.
C32_ViolationsRejectedAtOnce ==
  [][ \A c \in Requests, contacts \in ContactLists, msgOk \in BOOLEAN :
        (/\ PostSend(c, contacts, msgOk)
         /\ (~HasSession(Cur) \/ ~msgOk \/ Malformed(contacts)))
        => UNCHANGED <<calls, sinceSend>> ]_vars

\* A restart timeout set by a disconnect or by the initialization timeout fires.
RestartTimerFires ==
  \E d \in 0..RESTART_DELAY, ok \in BOOLEAN : RestartFires(d, ok)

\* C33: a restart timeout that fires when the session is QRPending,
\* Authenticated or Ready again leaves the state and constructs no connection.
C33_LateRestartHasNoEffect ==
  [][ (RestartTimerFires /\ clientState \in {"qr", "authenticated", "ready"}) =>
        /\ clientState' = clientState
        /\ client' = client
        /\ stale' = stale ]_vars

\* C34: whenever isInitializing is set, so that startClient() returns at its
\* guard, the state is Initializing and an initialization timeout is pending.
C34_BlockedStartHasWatchdog ==
  isInitializing => (clientState = "initializing" /\ watchdog # NotPending)

\* The live connection objects: the one the global refers to, if it is live,
\* and the superseded ones.
Live == (IF client \in LiveStages THEN 1 ELSE 0) + Followed(Cur)

\* C35: at most one live connection object exists at any time.
C35_AtMostOneLive == Live <= 1

\* C36: when the session is QRPending, with a QR payload, at any time while the
\* followed POST /api/whatsapp/qr is polling, the request responds with
\* success.
C36_QrInWindowIsSuccess ==
  (res = "pending" /\ clientState = "qr" /\ qrCodeData # NoQr) ~> (res = "success")

\* C37: what a successful verify-payment adds to the stored total is the amount
\* of the order of the user it verifies, in rupees.
C37_AddsOrderAmount ==
  \A u \in Users :
    payAt[u] = "done" => added[u] = orderOf[u] \div PAISE

\* C38: at most one initialization timeout is pending at any time, and it is
\* the one the handle names: none is pending that no handle names, and neither
\* startClient() nor the restart of a reset, run from any reachable state,
\* leaves a second one pending.
C38_OneWatchdog ==
  /\ PendingTimeouts(Cur) <= 1
  /\ \A d \in 0..INITIALIZATION_TIMEOUT : orphans[d] = 0
  /\ watchdog # NotPending => initializationTimeout = HANDLE
  /\ \A ctorOk \in BOOLEAN :
       /\ PendingTimeouts(StartClient(Cur, ctorOk)) <= 1
       /\ PendingTimeouts(OnResetRestart(Cur, ctorOk)) <= 1

\* A restart timeout has run startClient() while the timeout of the attempt in
\* progress was pending, and that timeout is still the only one.
C38_Witness ==
  /\ lastOp = "restartSkipped"
  /\ watchdog # NotPending
  /\ watchdog < INITIALIZATION_TIMEOUT
  /\ PendingTimeouts(Cur) = 1

====
